---------------------------- MODULE Spec2Model ----------------------------
(***************************************************************************)
(* Model of tinytask_enhanced.py: the playback engine (EnhancedPlayer),    *)
(* the capture engine (EnhancedRecorder), the parts of the GUI             *)
(* (EnhancedTinyTaskGUI) that start, pause and stop them, and the script   *)
(* that MacroCompiler writes.                                              *)
(*                                                                         *)
(* Time is counted in ticks of 100 ms, the length of the polling sleep of  *)
(* the pause loop (time.sleep(0.1)) and of the delay between two loops.    *)
(* An event's 'time' is a whole number of ticks, and event['time'] / speed *)
(* is rounded down to a tick.  A thread blocked in time.sleep(d) stays     *)
(* blocked until the clock reaches the instant at which it fell asleep     *)
(* plus d; the other steps of a thread take no time, so the clock moves    *)
(* only while a thread sleeps.  The clock stops at MaxTime, and a sleep    *)
(* that would end later ends there.                                        *)
(***************************************************************************)
EXTENDS Integers, Sequences, FiniteSets, TLC

(***************************************************************************)
(* Bounds of the model.                                                    *)
(***************************************************************************)
MaxLen == 2
MaxLoops == 2
MaxTime == 4
LongDelay == 3
MaxThreads == 2
MaxCap == 2
MaxCapTime == 1
MaxLoads == 2

(***************************************************************************)
(* Program constants, in ticks.                                            *)
(***************************************************************************)
PollTicks == 1
LoopGapTicks == 1

(* mouse_move_threshold, in pixels. *)
MoveThreshold == 5

Min(a, b) == IF a < b THEN a ELSE b
Max(a, b) == IF a > b THEN a ELSE b

(* The 'time' fields a log of the model may hold. *)
EventTimes == {0, LongDelay}

(* The strings str(button) gives for the members of mouse.Button. *)
ButtonStrings == {"Button.left"}

(* The strings key_to_string gives: str(key) for a member of Key, the       *)
(* quoted character for a key that has one.                                *)
SpecialKeyStrings == {"Key.f9"}
QuotedChars == {"'a'"}

(* A well-formed event of a log, as a capture records it. *)
Event == [type : {"mouse_click"}, data : {"Button.left"}, time : EventTimes]

(* Every log of at most MaxLen events, the empty one included. *)
Logs == UNION {[1..n -> Event] : n \in 0..MaxLen}

(* What _play_worker may read: speed_var offers 0.1 .. 5.0 (ttk.Scale),    *)
(* loops_var holds whatever number is typed into the spin box.             *)
GuiSpeeds == {1, 2}
GuiLoops == 0..MaxLoops

(* The arguments a direct caller of EnhancedPlayer.play may pass. *)
ApiSpeeds == {-1, 0, 1, 2}
ApiLoops == 0..MaxLoops

Threads == 1..MaxThreads

VARIABLES
    events,            \* recorder.events, the list handed to EnhancedPlayer
    is_playing,        \* EnhancedTinyTaskGUI.is_playing
    has_player,        \* EnhancedTinyTaskGUI.player is not None
    after_queue,       \* pending root.after(0, _playback_finished) calls
    playing,           \* EnhancedPlayer.playing
    paused,            \* EnhancedPlayer.paused
    speed_multiplier,  \* EnhancedPlayer.speed_multiplier
    loop_count,        \* EnhancedPlayer.loop_count
    current_loop,      \* EnhancedPlayer.current_loop
    pc,                \* per thread: where it is in _play_worker / play
    idx,               \* per thread: i of the for loop of _play_sequence
    start_time,        \* per thread: start_time of _play_sequence
    wake,              \* per thread: the instant its time.sleep ends
    now,               \* the clock: ticks since the latest Play command
    dispatched,        \* history: <<loop, i>> of every _execute_event call
    callbacks,         \* history: <<i + 1, currentLoop, totalLoops, len(events)>> of every callback
    caught,            \* history: play() caught an exception (line 239)
    stop,              \* history: the first Stop() since the latest Play command
    recording,         \* EnhancedRecorder.recording
    stop_event,        \* EnhancedRecorder.stop_event is set
    rec_start_time,    \* EnhancedRecorder.start_time
    mouse_listener,    \* EnhancedRecorder.mouse_listener: "none", "running", "stopped"
    keyboard_listener, \* EnhancedRecorder.keyboard_listener, likewise
    is_recording,      \* EnhancedTinyTaskGUI.is_recording
    rec_pc,            \* where the record thread is in _record_worker / start
    rec_after,         \* pending root.after(0, _recording_finished) calls
    gui_pc,            \* where the main thread is inside a handler
    h_pc,              \* per listener thread: where it is in its callback
    h_kind,            \* per listener thread: the notification it handles
    h_time,            \* per listener thread: timestamp of _record_event
    cap_stop,          \* history: the first Stop() returned since the Record command
    last_mouse_pos,    \* EnhancedRecorder.last_mouse_pos
    record_mouse_moves, \* EnhancedRecorder.record_mouse_moves
    cap_start,         \* history: how the latest recorder.start() went
    loads,             \* history: the calls of Load and the file of the latest
    script             \* the script compile_to_script wrote and the process running it

guiVars == <<is_playing, has_player, after_queue>>
playerVars == <<playing, paused, speed_multiplier, loop_count, current_loop>>
threadVars == <<pc, idx, start_time, wake>>
histVars == <<dispatched, callbacks, caught, stop>>
moveVars == <<last_mouse_pos, record_mouse_moves>>
capVars == <<recording, stop_event, rec_start_time, mouse_listener, keyboard_listener,
             is_recording, rec_pc, rec_after, gui_pc, h_pc, h_kind, h_time, cap_stop,
             moveVars, cap_start, loads, script>>
playVars == <<guiVars, playerVars, threadVars, histVars>>
vars == <<events, guiVars, playerVars, threadVars, now, histVars, capVars>>

(* The listener threads of pynput: one for the mouse, one for the keyboard. *)
Listeners == {"mouse", "keyboard"}

(* The notifications a listener delivers, by callback and key. *)
Notifications ==
    [mouse |-> {[type |-> "mouse_click", data |-> "Button.left"],
                [type |-> "mouse_scroll", data |-> "xy"]},
     keyboard |-> {[type |-> "key_press", data |-> "'a'"],
                   [type |-> "key_release", data |-> "'a'"],
                   [type |-> "key_press", data |-> "Key.f9"]}]

NoNotification == [type |-> "none", data |-> "none"]

(* recorder.start() has just been called: no subscription has failed,      *)
(* nothing was returned or raised to the caller, no move was reported and  *)
(* no statement of stop() was executed since.                              *)
NoCapStart == [failed |-> FALSE, result |-> "none", moved |-> FALSE, stopped |-> FALSE]

(* Load has not been called.  count is the number of calls, file the file  *)
(* of the latest, and current tells that no start() has replaced the log   *)
(* since.                                                                  *)
NoLoad == [count |-> 0, file |-> [parses |-> FALSE, value |-> <<>>], current |-> FALSE]

(* No script has been compiled.  source is the EVENTS literal of the       *)
(* script, pc the place of its process, i, start_time and wake the locals  *)
(* of MacroPlayer.play, calls the history of its injection calls.          *)
NoScript == [source |-> <<>>, pc |-> "none", i |-> 0, start_time |-> 0, wake |-> 0,
             calls |-> <<>>]

(* No capture Stop() has returned yet. *)
NoCapStop == [returned |-> FALSE, len |-> 0]

(* The threads that are inside _play_worker or play(). *)
Active == {w \in Threads : pc[w] # "idle"}

(* A thread is blocked in the time.sleep(delay) that precedes an event. *)
InEventSleep == \E w \in Threads : pc[w] = "sleep" /\ now < wake[w]

(* No Stop() yet. *)
NoStop == [called |-> FALSE, in_sleep |-> FALSE, time |-> 0,
           paused |-> FALSE, resumed |-> FALSE]

(* What the first Stop() of a session finds: whether the playback thread   *)
(* is blocked in the sleep before an event (and then the instant of the    *)
(* call), and whether the player is paused.                                *)
StopRecord ==
    IF stop.called THEN stop
    ELSE [called |-> TRUE, in_sleep |-> InEventSleep,
          time |-> IF InEventSleep THEN now ELSE 0,
          paused |-> paused, resumed |-> FALSE]

(* event['time'] / self.speed_multiplier, for a speed other than 0. *)
TargetTime(t, s) == IF s > 0 THEN t \div s ELSE 0 - (t \div (0 - s))

(* The instant a time.sleep(d) that starts now ends; the clock stops at MaxTime. *)
SleepUntil(d) == Min(now + d, MaxTime)

Init ==
    /\ events \in Logs
    /\ is_playing = FALSE
    /\ has_player = FALSE
    /\ after_queue = 0
    /\ playing = FALSE
    /\ paused = FALSE
    /\ speed_multiplier = 1
    /\ loop_count = 1
    /\ current_loop = 0
    /\ pc = [w \in Threads |-> "idle"]
    /\ idx = [w \in Threads |-> 0]
    /\ start_time = [w \in Threads |-> 0]
    /\ wake = [w \in Threads |-> 0]
    /\ now = 0
    /\ dispatched = <<>>
    /\ callbacks = <<>>
    /\ caught = FALSE
    /\ stop = NoStop
    /\ recording = FALSE
    /\ stop_event = FALSE
    /\ rec_start_time = 0
    /\ mouse_listener = "none"
    /\ keyboard_listener = "none"
    /\ is_recording = FALSE
    /\ rec_pc = "idle"
    /\ rec_after = 0
    /\ gui_pc = "idle"
    /\ h_pc = [l \in Listeners |-> "idle"]
    /\ h_kind = [l \in Listeners |-> NoNotification]
    /\ h_time = [l \in Listeners |-> 0]
    /\ cap_stop = NoCapStop
    /\ last_mouse_pos = <<0, 0>>
    /\ record_mouse_moves = TRUE
    /\ cap_start = NoCapStart
    /\ loads = NoLoad
    /\ script = NoScript

(***************************************************************************)
(* The controlling context: the handlers of the GUI, run by the Tk main    *)
(* loop one at a time.                                                     *)
(***************************************************************************)

(* EnhancedPlayer.__init__: a new player object. *)
NewPlayer ==
    /\ playing' = FALSE
    /\ paused' = FALSE
    /\ speed_multiplier' = 1
    /\ loop_count' = 1
    /\ current_loop' = 0

(* A Play command starts a new playback session: the histories and the     *)
(* clock of the model start again.                                         *)
NewSession ==
    /\ now' = 0
    /\ dispatched' = <<>>
    /\ callbacks' = <<>>
    /\ caught' = FALSE
    /\ stop' = NoStop

(* threading.Thread(target=...).start(): a thread that is not running. *)
Spawn(at) ==
    /\ \E w \in Threads :
        /\ pc[w] = "idle"
        /\ \A v \in Threads : pc[v] = "idle" => w <= v
        /\ pc' = [pc EXCEPT ![w] = at]
        /\ idx' = [idx EXCEPT ![w] = 0]
        /\ start_time' = [start_time EXCEPT ![w] = 0]
        /\ wake' = [wake EXCEPT ![w] = 0]

(* GuiPlay without the is_playing check of line 642. *)
GuiPlayNoBusyCheck ==
    /\ gui_pc = "idle"
    /\ Len(events) > 0
    /\ ~is_recording
    /\ is_playing' = TRUE
    /\ has_player' = TRUE
    /\ NewPlayer
    /\ Spawn("start")
    /\ NewSession
    /\ UNCHANGED <<capVars, events, after_queue>>

(* EnhancedTinyTaskGUI.play *)
GuiPlay ==
    /\ gui_pc = "idle"
    /\ Len(events) > 0
    /\ ~is_recording
    /\ ~is_playing
    /\ is_playing' = TRUE
    /\ has_player' = TRUE
    /\ NewPlayer
    /\ Spawn("start")
    /\ NewSession
    /\ UNCHANGED <<capVars, events, after_queue>>

(* EnhancedPlayer.stop *)
PlayerStop == playing' = FALSE

(* EnhancedPlayer.pause *)
PlayerPause == paused' = TRUE

(* EnhancedPlayer.resume *)
PlayerResume == paused' = FALSE

(* EnhancedTinyTaskGUI.pause_resume *)
GuiPauseResume ==
    /\ gui_pc = "idle"
    /\ has_player
    /\ is_playing
    /\ IF ~paused THEN PlayerPause ELSE PlayerResume
    /\ stop' = IF paused /\ stop.called THEN [stop EXCEPT !.resumed = TRUE] ELSE stop
    /\ UNCHANGED <<capVars, events, guiVars, playing, speed_multiplier, loop_count, current_loop,
                   threadVars, now, dispatched, callbacks, caught>>

(* EnhancedTinyTaskGUI.stop_playback *)
GuiStop ==
    /\ gui_pc = "idle"
    /\ has_player
    /\ is_playing
    /\ PlayerStop
    /\ stop' = StopRecord
    /\ UNCHANGED <<capVars, events, guiVars, paused, speed_multiplier, loop_count, current_loop,
                   threadVars, now, dispatched, callbacks, caught>>

(* EnhancedTinyTaskGUI._playback_finished, run by the main loop. *)
PlaybackFinished ==
    /\ gui_pc = "idle"
    /\ after_queue > 0
    /\ after_queue' = after_queue - 1
    /\ is_playing' = FALSE
    /\ UNCHANGED <<capVars, events, has_player, playerVars, threadVars, now, histVars>>

(***************************************************************************)
(* The playback thread: _play_worker, EnhancedPlayer.play and              *)
(* _play_sequence, one action per stretch of code between two reads or     *)
(* writes of a field another thread may touch, or two sleeps.              *)
(***************************************************************************)

Goto(w, l) == pc' = [pc EXCEPT ![w] = l]

(* play(), lines 226-229 *)
PlayEntry(w, speed, loops) ==
    /\ speed_multiplier' = speed
    /\ loop_count' = loops
    /\ current_loop' = 0
    /\ playing' = TRUE
    /\ Goto(w, "loop")
    /\ UNCHANGED <<paused, idx, start_time, wake>>

(* _play_worker, lines 663-665: reads speed_var and loops_var, which hold   *)
(* whatever the user has set by then, and calls play()                     *)
WorkerStart(w) ==
    /\ pc[w] = "start"
    /\ \E speed \in GuiSpeeds, loops \in GuiLoops : PlayEntry(w, speed, loops)
    /\ UNCHANGED <<capVars, events, guiVars, now, histVars>>

(* play(), line 232, and the entry of _play_sequence, lines 246-249 *)
PlayLoop(w) ==
    /\ pc[w] = "loop"
    /\ IF current_loop < loop_count /\ playing
       THEN IF Len(events) = 0
            THEN Goto(w, "endseq") /\ UNCHANGED <<idx, start_time>>
            ELSE /\ Goto(w, "iter")
                 /\ idx' = [idx EXCEPT ![w] = 0]
                 /\ start_time' = [start_time EXCEPT ![w] = now]
       ELSE Goto(w, "finally") /\ UNCHANGED <<idx, start_time>>
    /\ UNCHANGED <<capVars, events, guiVars, playerVars, wake, now, histVars>>

(* _play_sequence, lines 250-252: the next event, if playing *)
SeqIter(w) ==
    /\ pc[w] = "iter"
    /\ IF idx[w] < Len(events) /\ playing
       THEN Goto(w, "pause")
       ELSE Goto(w, "endseq")
    /\ UNCHANGED <<capVars, events, guiVars, playerVars, idx, start_time, wake, now, histVars>>

(* _play_sequence, lines 255-256: the pause loop *)
SeqPause(w) ==
    /\ pc[w] = "pause"
    /\ IF paused /\ playing
       THEN Goto(w, "pausesleep") /\ wake' = [wake EXCEPT ![w] = SleepUntil(PollTicks)]
       ELSE Goto(w, "check") /\ UNCHANGED wake
    /\ UNCHANGED <<capVars, events, guiVars, playerVars, idx, start_time, now, histVars>>

(* time.sleep(0.1) of the pause loop returns *)
SeqPauseWake(w) ==
    /\ pc[w] = "pausesleep"
    /\ now >= wake[w]
    /\ Goto(w, "pause")
    /\ UNCHANGED <<capVars, events, guiVars, playerVars, idx, start_time, wake, now, histVars>>

(* _play_sequence, lines 258-267: the delay before the event.  A speed of 0 *)
(* raises ZeroDivisionError, which play() catches at line 239.              *)
SeqDelay(w) ==
    /\ pc[w] = "check"
    /\ IF ~playing
       THEN Goto(w, "endseq") /\ UNCHANGED <<wake, caught>>
       ELSE IF speed_multiplier = 0
            THEN Goto(w, "finally") /\ caught' = TRUE /\ UNCHANGED wake
            ELSE LET target_time == TargetTime(events[idx[w] + 1].time, speed_multiplier)
                     elapsed == now - start_time[w]
                     delay == Max(0, target_time - elapsed)
                 IN /\ IF delay > 0
                       THEN /\ Goto(w, "sleep")
                            /\ wake' = [wake EXCEPT ![w] = SleepUntil(delay)]
                       ELSE /\ Goto(w, "exec")
                            /\ UNCHANGED wake
                    /\ UNCHANGED caught
    /\ UNCHANGED <<capVars, events, guiVars, playerVars, idx, start_time, now,
                   dispatched, callbacks, stop>>

(* time.sleep(delay) returns *)
SeqSleepWake(w) ==
    /\ pc[w] = "sleep"
    /\ now >= wake[w]
    /\ Goto(w, "exec")
    /\ UNCHANGED <<capVars, events, guiVars, playerVars, idx, start_time, wake, now, histVars>>

(* _play_sequence, line 270: _execute_event is called *)
ExecBegin(w) ==
    /\ pc[w] = "exec"
    /\ dispatched' = Append(dispatched, <<current_loop, idx[w]>>)
    /\ Goto(w, "executing")
    /\ UNCHANGED <<capVars, events, guiVars, playerVars, idx, start_time, wake, now,
                   callbacks, caught, stop>>

(* SafeKeyParser.parse_key: 'Key.<name>' is the member of Key of that name,  *)
(* or the string itself when Key has no such member (getattr with a        *)
(* default); a quoted character is the character; anything else is given   *)
(* to KeyCode.from_char.                                                   *)
parse_key(key_str) ==
    IF key_str \in SpecialKeyStrings THEN [kind |-> "Key", name |-> key_str]
    ELSE IF key_str \in QuotedChars THEN [kind |-> "char", name |-> key_str]
    ELSE [kind |-> "str", name |-> key_str]

(* The body of the try of _execute_event raises: getattr(mouse.Button, ...) *)
(* on a name Button does not have, or keyboard_controller.press / release  *)
(* on a string that is not one character (pynput raises ValueError).       *)
Raises(event) ==
    CASE event.type = "mouse_click" -> event.data \notin ButtonStrings
      [] event.type \in {"key_press", "key_release"} -> parse_key(event.data).kind = "str"
      [] OTHER -> FALSE

(* ExecEnd without the except clause of line 304: the exception leaves     *)
(* _play_sequence and is caught by play() at line 239.                     *)
ExecEndUncaught(w) ==
    /\ pc[w] = "executing"
    /\ IF Raises(events[idx[w] + 1])
       THEN Goto(w, "finally") /\ caught' = TRUE
       ELSE Goto(w, "cb") /\ UNCHANGED caught
    /\ UNCHANGED <<capVars, events, guiVars, playerVars, idx, start_time, wake, now,
                   dispatched, callbacks, stop>>

(* _execute_event returns: an exception raised by the dispatch is caught   *)
(* and printed at lines 304-305, so the call returns normally either way   *)
ExecEnd(w) ==
    /\ pc[w] = "executing"
    /\ IF Raises(events[idx[w] + 1])
       THEN Goto(w, "cb") /\ UNCHANGED caught
       ELSE Goto(w, "cb") /\ UNCHANGED caught
    /\ UNCHANGED <<capVars, events, guiVars, playerVars, idx, start_time, wake, now,
                   dispatched, callbacks, stop>>

(* SeqCallback with progress = i / len(events). *)
SeqCallbackFromZero(w) ==
    /\ pc[w] = "cb"
    /\ callbacks' = Append(callbacks, <<idx[w], current_loop + 1, loop_count, Len(events)>>)
    /\ idx' = [idx EXCEPT ![w] = idx[w] + 1]
    /\ Goto(w, "iter")
    /\ UNCHANGED <<capVars, events, guiVars, playerVars, start_time, wake, now,
                   dispatched, caught, stop>>

(* _play_sequence, lines 273-275: the progress callback, then the next i.  *)
(* progress = (i + 1) / len(self.events) is kept as its numerator and its  *)
(* denominator.                                                            *)
SeqCallback(w) ==
    /\ pc[w] = "cb"
    /\ callbacks' = Append(callbacks, <<idx[w] + 1, current_loop + 1, loop_count, Len(events)>>)
    /\ idx' = [idx EXCEPT ![w] = idx[w] + 1]
    /\ Goto(w, "iter")
    /\ UNCHANGED <<capVars, events, guiVars, playerVars, start_time, wake, now,
                   dispatched, caught, stop>>

(* PlayNextLoop with current_loop counted twice. *)
PlayNextLoopSkips(w) ==
    /\ pc[w] = "endseq"
    /\ current_loop' = current_loop + 2
    /\ IF current_loop + 2 < loop_count
       THEN Goto(w, "gap") /\ wake' = [wake EXCEPT ![w] = SleepUntil(LoopGapTicks)]
       ELSE Goto(w, "loop") /\ UNCHANGED wake
    /\ UNCHANGED <<capVars, events, guiVars, playing, paused, speed_multiplier, loop_count,
                   idx, start_time, now, histVars>>

(* play(), lines 234-237: the loop is counted, then the delay between loops *)
PlayNextLoop(w) ==
    /\ pc[w] = "endseq"
    /\ current_loop' = current_loop + 1
    /\ IF current_loop + 1 < loop_count
       THEN Goto(w, "gap") /\ wake' = [wake EXCEPT ![w] = SleepUntil(LoopGapTicks)]
       ELSE Goto(w, "loop") /\ UNCHANGED wake
    /\ UNCHANGED <<capVars, events, guiVars, playing, paused, speed_multiplier, loop_count,
                   idx, start_time, now, histVars>>

(* time.sleep(0.1) between two loops returns *)
PlayGapWake(w) ==
    /\ pc[w] = "gap"
    /\ now >= wake[w]
    /\ Goto(w, "loop")
    /\ UNCHANGED <<capVars, events, guiVars, playerVars, idx, start_time, wake, now, histVars>>

(* PlayFinally without the assignment of line 242. *)
PlayFinallyKeepsPlaying(w) ==
    /\ pc[w] = "finally"
    /\ Goto(w, "after")
    /\ UNCHANGED <<capVars, events, guiVars, playerVars, idx, start_time, wake, now, histVars>>

(* play(), line 242: finally, and play() returns *)
PlayFinally(w) ==
    /\ pc[w] = "finally"
    /\ playing' = FALSE
    /\ Goto(w, "after")
    /\ UNCHANGED <<capVars, events, guiVars, paused, speed_multiplier, loop_count, current_loop,
                   idx, start_time, wake, now, histVars>>

(* _play_worker, line 671: root.after(0, self._playback_finished), and the  *)
(* thread ends: its locals are gone                                        *)
WorkerAfter(w) ==
    /\ pc[w] = "after"
    /\ after_queue' = after_queue + 1
    /\ Goto(w, "idle")
    /\ idx' = [idx EXCEPT ![w] = 0]
    /\ start_time' = [start_time EXCEPT ![w] = 0]
    /\ wake' = [wake EXCEPT ![w] = 0]
    /\ UNCHANGED <<capVars, events, is_playing, has_player, playerVars, now, histVars>>

(* A thread is blocked in a time.sleep that has not elapsed. *)
Sleeping(w) == pc[w] \in {"pausesleep", "sleep", "gap"} /\ now < wake[w]

(* The clock advances by one tick while a thread sleeps. *)
Tick ==
    /\ now < MaxTime
    /\ \E w \in Threads : Sleeping(w)
    /\ now' = now + 1
    /\ UNCHANGED <<capVars, events, guiVars, playerVars, threadVars, histVars>>

(* The steps of play() and _play_sequence. *)
PlaySteps ==
    \/ \E w \in Threads : PlayLoop(w)
    \/ \E w \in Threads : SeqIter(w)
    \/ \E w \in Threads : SeqPause(w)
    \/ \E w \in Threads : SeqPauseWake(w)
    \/ \E w \in Threads : SeqDelay(w)
    \/ \E w \in Threads : SeqSleepWake(w)
    \/ \E w \in Threads : ExecBegin(w)
    \/ \E w \in Threads : ExecEnd(w)
    \/ \E w \in Threads : SeqCallback(w)
    \/ \E w \in Threads : PlayNextLoop(w)
    \/ \E w \in Threads : PlayGapWake(w)
    \/ \E w \in Threads : PlayFinally(w)

(***************************************************************************)
(* The program: the GUI drives one playback session after another.         *)
(***************************************************************************)
Next ==
    \/ GuiPlay
    \/ GuiPauseResume
    \/ GuiStop
    \/ PlaybackFinished
    \/ \E w \in Threads : WorkerStart(w)
    \/ PlaySteps
    \/ \E w \in Threads : WorkerAfter(w)
    \/ Tick

Spec == Init /\ [][Next]_vars

(***************************************************************************)
(* The playback engine on its own: a caller constructs an EnhancedPlayer   *)
(* on any log and calls play() with any arguments on thread 1, while       *)
(* another context calls stop(), pause() and resume() at any time.         *)
(***************************************************************************)

(* EnhancedPlayer(log) *)
EngineNew ==
    /\ Active = {}
    /\ \E log \in Logs : events' = log
    /\ has_player' = TRUE
    /\ NewPlayer
    /\ NewSession
    /\ UNCHANGED <<capVars, is_playing, after_queue, threadVars>>

(* player.play(speed, loops, callback) is called *)
EnginePlay ==
    /\ has_player
    /\ pc[1] = "idle"
    /\ \E speed \in ApiSpeeds, loops \in ApiLoops : PlayEntry(1, speed, loops)
    /\ NewSession
    /\ UNCHANGED <<capVars, events, guiVars>>

(* play() has returned to its caller: its locals are gone *)
EngineReturn ==
    /\ pc[1] = "after"
    /\ Goto(1, "idle")
    /\ idx' = [idx EXCEPT ![1] = 0]
    /\ start_time' = [start_time EXCEPT ![1] = 0]
    /\ wake' = [wake EXCEPT ![1] = 0]
    /\ UNCHANGED <<capVars, events, guiVars, playerVars, now, histVars>>

(* player.stop() *)
EngineStop ==
    /\ has_player
    /\ PlayerStop
    /\ stop' = StopRecord
    /\ UNCHANGED <<capVars, events, guiVars, paused, speed_multiplier, loop_count, current_loop,
                   threadVars, now, dispatched, callbacks, caught>>

(* player.pause() *)
EnginePause ==
    /\ has_player
    /\ PlayerPause
    /\ UNCHANGED <<capVars, events, guiVars, playing, speed_multiplier, loop_count, current_loop,
                   threadVars, now, histVars>>

(* player.resume() *)
EngineResume ==
    /\ has_player
    /\ PlayerResume
    /\ stop' = IF stop.called THEN [stop EXCEPT !.resumed = TRUE] ELSE stop
    /\ UNCHANGED <<capVars, events, guiVars, playing, speed_multiplier, loop_count, current_loop,
                   threadVars, now, dispatched, callbacks, caught>>

NextEngine ==
    \/ EngineNew
    \/ EnginePlay
    \/ EngineReturn
    \/ EngineStop
    \/ EnginePause
    \/ EngineResume
    \/ PlaySteps
    \/ Tick

SpecEngine == Init /\ [][NextEngine]_vars

(* The events a log given to EnhancedPlayer may hold, the ones whose       *)
(* dispatch raises included: a button name mouse.Button does not have, a   *)
(* key symbol Key does not have.                                           *)
DispatchEvent ==
    Event \cup [type : {"mouse_click"}, data : {"Button.bogus"}, time : {0}]
          \cup [type : {"key_press"}, data : {"Key.bogus"}, time : {0}]

DispatchLogs == UNION {[1..n -> DispatchEvent] : n \in 0..MaxLen}

(* EnhancedPlayer(log), for a log that may hold events that fail *)
EngineNewDispatch ==
    /\ Active = {}
    /\ \E log \in DispatchLogs : events' = log
    /\ has_player' = TRUE
    /\ NewPlayer
    /\ NewSession
    /\ UNCHANGED <<capVars, is_playing, after_queue, threadVars>>

(* Plays that are paused and resumed but never stopped. *)
NextDispatch ==
    \/ EngineNewDispatch
    \/ EnginePlay
    \/ EngineReturn
    \/ EnginePause
    \/ EngineResume
    \/ PlaySteps
    \/ Tick

SpecDispatch == Init /\ [][NextDispatch]_vars

(* The steps of the playback thread. *)
ThreadNext ==
    \/ \E w \in Threads : WorkerStart(w)
    \/ PlaySteps
    \/ \E w \in Threads : WorkerAfter(w)

(* The engine on its own with a scheduler that lets the thread inside      *)
(* play() run, and a clock that advances while it sleeps.                  *)
FairSpecEngine ==
    /\ SpecEngine
    /\ WF_vars(PlaySteps)
    /\ WF_vars(Tick)

(* The program with a scheduler that lets a runnable thread run, a clock   *)
(* that advances while a thread sleeps, and a main loop that runs the      *)
(* callbacks queued with root.after.  The user need not do anything.       *)
FairSpec ==
    /\ Spec
    /\ WF_vars(ThreadNext)
    /\ WF_vars(Tick)
    /\ WF_vars(PlaybackFinished)

(***************************************************************************)
(* The capture engine: EnhancedRecorder, the record thread of the GUI and  *)
(* the two listener threads that run its callbacks.                        *)
(***************************************************************************)

(* EnhancedRecorder.stop, line 178 *)
StopSet ==
    /\ stop_event' = TRUE
    /\ cap_start' = [cap_start EXCEPT !.stopped = TRUE]

(* StopClear with the flag inverted in place of cleared. *)
StopToggle ==
    /\ recording' = ~recording
    /\ cap_start' = [cap_start EXCEPT !.stopped = TRUE]

(* EnhancedRecorder.stop, line 179 *)
StopClear ==
    /\ recording' = FALSE
    /\ cap_start' = [cap_start EXCEPT !.stopped = TRUE]

(* What the first Stop() that returns after a Record command finds. *)
CapStopRecord ==
    IF cap_stop.returned THEN cap_stop ELSE [returned |-> TRUE, len |-> Len(events)]

(* GuiStartRecording without the is_playing check of line 577. *)
GuiStartRecordingNoBusyCheck ==
    /\ gui_pc = "idle"
    /\ ~is_recording
    /\ is_recording' = TRUE
    /\ rec_pc' = "start"
    /\ cap_stop' = NoCapStop
    /\ now' = 0
    /\ rec_start_time' = rec_start_time - now
    /\ UNCHANGED <<events, playVars, script, moveVars, cap_start, loads, recording, stop_event,
                   mouse_listener, keyboard_listener, rec_after, gui_pc,
                   h_pc, h_kind, h_time>>

(* EnhancedTinyTaskGUI.toggle_record -> start_recording.  The clock of the  *)
(* model starts again at 0, and the recorder's start_time moves with it,   *)
(* so that the time elapsed since start_time is what it was.               *)
GuiStartRecording ==
    /\ gui_pc = "idle"
    /\ ~is_recording
    /\ ~is_playing
    /\ is_recording' = TRUE
    /\ rec_pc' = "start"
    /\ cap_stop' = NoCapStop
    /\ now' = 0
    /\ rec_start_time' = rec_start_time - now
    /\ UNCHANGED <<events, playVars, script, moveVars, cap_start, loads, recording, stop_event,
                   mouse_listener, keyboard_listener, rec_after, gui_pc,
                   h_pc, h_kind, h_time>>

(* EnhancedTinyTaskGUI.toggle_record -> stop_recording -> recorder.stop(),  *)
(* up to line 178                                                          *)
GuiStopRecording ==
    /\ gui_pc = "idle"
    /\ is_recording
    /\ StopSet
    /\ gui_pc' = "stop"
    /\ UNCHANGED <<events, playVars, script, moveVars, loads, now, recording, rec_start_time, mouse_listener,
                   keyboard_listener, is_recording, rec_pc, rec_after,
                   h_pc, h_kind, h_time, cap_stop>>

(* recorder.stop(), line 179, and stop_recording returns *)
GuiStopRecordingDone ==
    /\ gui_pc = "stop"
    /\ StopClear
    /\ gui_pc' = "idle"
    /\ cap_stop' = CapStopRecord
    /\ UNCHANGED <<events, playVars, script, moveVars, loads, now, stop_event, rec_start_time, mouse_listener,
                   keyboard_listener, is_recording, rec_pc, rec_after,
                   h_pc, h_kind, h_time>>

(* EnhancedTinyTaskGUI._recording_finished, run by the main loop *)
RecordingFinished ==
    /\ gui_pc = "idle"
    /\ rec_after > 0
    /\ rec_after' = rec_after - 1
    /\ is_recording' = FALSE
    /\ UNCHANGED <<events, playVars, script, moveVars, cap_start, loads, now, recording, stop_event, rec_start_time,
                   mouse_listener, keyboard_listener, rec_pc, gui_pc,
                   h_pc, h_kind, h_time, cap_stop>>

(* EnhancedRecorder.start, lines 148-149 *)
RecStart ==
    /\ rec_pc = "start"
    /\ events' = <<>>
    /\ recording' = TRUE
    /\ rec_pc' = "clear"
    /\ cap_start' = NoCapStart
    /\ loads' = [loads EXCEPT !.current = FALSE]
    /\ UNCHANGED <<playVars, script, moveVars, now, stop_event, rec_start_time, mouse_listener,
                   keyboard_listener, is_recording, rec_after, gui_pc,
                   h_pc, h_kind, h_time, cap_stop>>

(* EnhancedRecorder.start, lines 150-152 *)
RecClear ==
    /\ rec_pc = "clear"
    /\ rec_start_time' = now
    /\ stop_event' = FALSE
    /\ rec_pc' = "listen"
    /\ UNCHANGED <<events, playVars, script, moveVars, cap_start, loads, now, recording, mouse_listener,
                   keyboard_listener, is_recording, rec_after, gui_pc,
                   h_pc, h_kind, h_time, cap_stop>>

(* EnhancedRecorder.start, lines 155-166: both listeners are created and   *)
(* started                                                                 *)
RecListen ==
    /\ rec_pc = "listen"
    /\ mouse_listener' = "running"
    /\ keyboard_listener' = "running"
    /\ rec_pc' = "wait"
    /\ UNCHANGED <<events, playVars, script, moveVars, cap_start, loads, now, recording, stop_event, rec_start_time,
                   is_recording, rec_after, gui_pc, h_pc, h_kind, h_time, cap_stop>>

(* EnhancedRecorder.start, line 169: stop_event.wait() returns *)
RecWait ==
    /\ rec_pc = "wait"
    /\ stop_event
    /\ rec_pc' = "cleanup"
    /\ UNCHANGED <<events, playVars, script, moveVars, cap_start, loads, now, recording, stop_event, rec_start_time,
                   mouse_listener, keyboard_listener, is_recording, rec_after, gui_pc,
                   h_pc, h_kind, h_time, cap_stop>>

(* The statements of the try of start() that subscribe to the backend. *)
SubscribeSteps == {"mouse_new", "keyboard_new", "mouse_start", "keyboard_start"}

(* EnhancedRecorder.start, lines 155-166, when a statement raises: the     *)
(* constructor of a listener (the attribute keeps the listener of the      *)
(* previous capture, if any) or the start of one (the listeners created    *)
(* before are assigned, the mouse listener runs if it was started).  The   *)
(* except clause of lines 171-172 prints the exception.                    *)
RecListenFails ==
    /\ rec_pc = "listen"
    /\ \E step \in SubscribeSteps :
        /\ mouse_listener' = CASE step = "mouse_new" -> mouse_listener
                                [] step = "keyboard_start" -> "running"
                                [] OTHER -> "created"
        /\ keyboard_listener' = IF step \in {"mouse_new", "keyboard_new"}
                                THEN keyboard_listener ELSE "created"
    /\ cap_start' = [cap_start EXCEPT !.failed = TRUE]
    /\ rec_pc' = "cleanup"
    /\ UNCHANGED <<events, playVars, script, moveVars, loads, now, recording, stop_event, rec_start_time,
                   is_recording, rec_after, gui_pc, h_pc, h_kind, h_time, cap_stop>>

(* EnhancedRecorder._cleanup_listeners, and start() returns: normally,     *)
(* also after the except clause has swallowed an exception                 *)
RecCleanup ==
    /\ rec_pc = "cleanup"
    /\ mouse_listener' = IF mouse_listener = "none" THEN "none" ELSE "stopped"
    /\ keyboard_listener' = IF keyboard_listener = "none" THEN "none" ELSE "stopped"
    /\ rec_pc' = "after"
    /\ cap_start' = [cap_start EXCEPT !.result = "returned"]
    /\ UNCHANGED <<events, playVars, script, moveVars, loads, now, recording, stop_event, rec_start_time,
                   is_recording, rec_after, gui_pc, h_pc, h_kind, h_time, cap_stop>>

(* _record_worker, line 603: root.after(0, self._recording_finished) *)
RecAfter ==
    /\ rec_pc = "after"
    /\ rec_after' = rec_after + 1
    /\ rec_pc' = "idle"
    /\ UNCHANGED <<events, playVars, script, moveVars, cap_start, loads, now, recording, stop_event, rec_start_time,
                   mouse_listener, keyboard_listener, is_recording, gui_pc,
                   h_pc, h_kind, h_time, cap_stop>>

(* The listener object a listener thread belongs to. *)
ListenerOf(l) == IF l = "mouse" THEN mouse_listener ELSE keyboard_listener

(* The stop hot-key of _on_press, line 139. *)
IsHotkey(n) == n.type = "key_press" /\ n.data = "Key.f9"

(* Where a callback goes once _record_event has returned: _on_press to its *)
(* hot-key test, _on_move to line 126, the others return.                  *)
AfterRecord(n) ==
    IF IsHotkey(n) THEN "hotkey"
    ELSE IF n.type = "mouse_move" THEN "setpos"
    ELSE "idle"

(* A listener delivers a notification: _on_click, _on_scroll, _on_press or *)
(* _on_release calls _record_event, which reads recording at line 102.    *)
Deliver(l, n) ==
    /\ ListenerOf(l) = "running"
    /\ h_pc[l] = "idle"
    /\ Len(events) < MaxCap
    /\ IF recording
       THEN /\ h_kind' = [h_kind EXCEPT ![l] = n]
            /\ h_pc' = [h_pc EXCEPT ![l] = "stamp"]
       ELSE /\ h_kind' = h_kind
            /\ h_pc' = [h_pc EXCEPT ![l] = AfterRecord(n)]
    /\ UNCHANGED <<events, playVars, script, moveVars, cap_start, loads, now, recording, stop_event, rec_start_time,
                   mouse_listener, keyboard_listener, is_recording, rec_pc, rec_after,
                   gui_pc, h_time, cap_stop>>

(* A listener delivers any of its notifications. *)
Notify(l) == \E n \in Notifications[l] : Deliver(l, n)

(* _record_event, line 104: the timestamp *)
RecordStamp(l) ==
    /\ h_pc[l] = "stamp"
    /\ h_time' = [h_time EXCEPT ![l] = now - rec_start_time]
    /\ h_pc' = [h_pc EXCEPT ![l] = "append"]
    /\ UNCHANGED <<events, playVars, script, moveVars, cap_start, loads, now, recording, stop_event, rec_start_time,
                   mouse_listener, keyboard_listener, is_recording, rec_pc, rec_after,
                   gui_pc, h_kind, cap_stop>>

(* _record_event, lines 105-109: the event is appended *)
RecordAppend(l) ==
    /\ h_pc[l] = "append"
    /\ events' = Append(events, [type |-> h_kind[l].type, data |-> h_kind[l].data,
                                 time |-> h_time[l]])
    /\ h_pc' = [h_pc EXCEPT ![l] = AfterRecord(h_kind[l])]
    /\ h_kind' = [h_kind EXCEPT ![l] = IF AfterRecord(h_kind[l]) = "setpos"
                                        THEN h_kind[l] ELSE NoNotification]
    /\ h_time' = [h_time EXCEPT ![l] = 0]
    /\ UNCHANGED <<playVars, script, moveVars, cap_start, loads, now, recording, stop_event, rec_start_time,
                   mouse_listener, keyboard_listener, is_recording, rec_pc, rec_after,
                   gui_pc, cap_stop>>

(* _on_press, lines 139-140: the hot-key calls stop(), up to line 178 *)
HotkeyStop(l) ==
    /\ h_pc[l] = "hotkey"
    /\ StopSet
    /\ h_pc' = [h_pc EXCEPT ![l] = "hotkey_stop"]
    /\ UNCHANGED <<events, playVars, script, moveVars, loads, now, recording, rec_start_time,
                   mouse_listener, keyboard_listener, is_recording, rec_pc, rec_after,
                   gui_pc, h_kind, h_time, cap_stop>>

(* stop(), line 179, called by the hot-key; the callback returns *)
HotkeyStopDone(l) ==
    /\ h_pc[l] = "hotkey_stop"
    /\ StopClear
    /\ h_pc' = [h_pc EXCEPT ![l] = "idle"]
    /\ cap_stop' = CapStopRecord
    /\ UNCHANGED <<events, playVars, script, moveVars, loads, now, stop_event, rec_start_time,
                   mouse_listener, keyboard_listener, is_recording, rec_pc, rec_after,
                   gui_pc, h_kind, h_time>>

(* The program at its start: nothing recorded or loaded yet. *)
InitCapture == Init /\ events = <<>>

(* The clock advances by one tick during a capture. *)
CaptureTick ==
    /\ now < MaxCapTime
    /\ rec_pc # "idle"
    /\ now' = now + 1
    /\ UNCHANGED <<events, playVars, script, capVars>>

NextCapture ==
    \/ GuiStartRecording
    \/ GuiStopRecording
    \/ GuiStopRecordingDone
    \/ RecordingFinished
    \/ RecStart
    \/ RecClear
    \/ RecListen
    \/ RecWait
    \/ RecCleanup
    \/ RecAfter
    \/ \E l \in Listeners : Notify(l)
    \/ \E l \in Listeners : RecordStamp(l)
    \/ \E l \in Listeners : RecordAppend(l)
    \/ \E l \in Listeners : HotkeyStop(l)
    \/ \E l \in Listeners : HotkeyStopDone(l)
    \/ CaptureTick

SpecCapture == InitCapture /\ [][NextCapture]_vars

(* The steps of the record thread: _record_worker and recorder.start(). *)
RecThreadNext ==
    \/ RecStart
    \/ RecClear
    \/ RecListen
    \/ RecWait
    \/ RecCleanup
    \/ RecAfter

(* A capture with a scheduler that lets the record thread run when it can, *)
(* a main loop that finishes the handler it is in and gets to the          *)
(* callbacks queued with root.after however often the user clicks, and a   *)
(* hot-key callback that runs to its end.                                  *)
(* The user and the input devices need not do anything.                    *)
FairSpecCapture ==
    /\ SpecCapture
    /\ WF_vars(RecThreadNext)
    /\ WF_vars(GuiStopRecordingDone)
    /\ SF_vars(RecordingFinished)
    /\ WF_vars(\E l \in Listeners : HotkeyStop(l) \/ HotkeyStopDone(l))

(***************************************************************************)
(* Pointer moves: _on_move and the check box of the GUI.                   *)
(***************************************************************************)

Abs(a) == IF a < 0 THEN 0 - a ELSE a

(* The pointer positions the mouse listener reports. *)
Coords == {0, 3, 6}
Positions == Coords \X Coords

(* ExceedsThreshold with 'and' in place of 'or'. *)
ExceedsBoth(p, q) ==
    Abs(p[1] - q[1]) >= MoveThreshold /\ Abs(p[2] - q[2]) >= MoveThreshold

(* _on_move, line 124: the test against last_mouse_pos *)
ExceedsThreshold(p, q) ==
    Abs(p[1] - q[1]) >= MoveThreshold \/ Abs(p[2] - q[2]) >= MoveThreshold

(* The mouse listener calls _on_move(x, y). *)
NotifyMove ==
    /\ mouse_listener = "running"
    /\ h_pc["mouse"] = "idle"
    /\ Len(events) < MaxCap
    /\ \E p \in Positions :
        h_kind' = [h_kind EXCEPT !["mouse"] = [type |-> "mouse_move", data |-> p]]
    /\ h_pc' = [h_pc EXCEPT !["mouse"] = "filter"]
    /\ UNCHANGED <<events, playVars, script, now, recording, stop_event, rec_start_time,
                   mouse_listener, keyboard_listener, is_recording, rec_pc, rec_after,
                   gui_pc, h_time, cap_stop, moveVars, cap_start, loads>>

(* _on_move, lines 119-124: nothing is done when moves are not recorded or *)
(* the move is within the threshold of last_mouse_pos; otherwise           *)
(* _record_event is called                                                 *)
MoveFilter ==
    /\ h_pc["mouse"] = "filter"
    /\ IF record_mouse_moves /\ ExceedsThreshold(h_kind["mouse"].data, last_mouse_pos)
       THEN /\ h_pc' = [h_pc EXCEPT !["mouse"] = "record"]
            /\ UNCHANGED h_kind
       ELSE /\ h_pc' = [h_pc EXCEPT !["mouse"] = "idle"]
            /\ h_kind' = [h_kind EXCEPT !["mouse"] = NoNotification]
    /\ cap_start' = [cap_start EXCEPT !.moved = TRUE]
    /\ UNCHANGED <<events, playVars, script, now, recording, stop_event, rec_start_time,
                   mouse_listener, keyboard_listener, is_recording, rec_pc, rec_after,
                   gui_pc, h_time, cap_stop, moveVars, loads>>

(* _record_event called by _on_move, lines 102-103 *)
MoveRecord ==
    /\ h_pc["mouse"] = "record"
    /\ h_pc' = [h_pc EXCEPT !["mouse"] = IF recording THEN "stamp" ELSE "setpos"]
    /\ UNCHANGED <<events, playVars, script, now, recording, stop_event, rec_start_time,
                   mouse_listener, keyboard_listener, is_recording, rec_pc, rec_after,
                   gui_pc, h_kind, h_time, cap_stop, moveVars, cap_start, loads>>

(* _on_move, line 126, and the callback returns *)
SetLastPos ==
    /\ h_pc["mouse"] = "setpos"
    /\ last_mouse_pos' = h_kind["mouse"].data
    /\ h_pc' = [h_pc EXCEPT !["mouse"] = "idle"]
    /\ h_kind' = [h_kind EXCEPT !["mouse"] = NoNotification]
    /\ UNCHANGED <<events, playVars, script, now, recording, stop_event, rec_start_time,
                   mouse_listener, keyboard_listener, is_recording, rec_pc, rec_after,
                   gui_pc, h_time, cap_stop, record_mouse_moves, cap_start, loads>>

(* EnhancedTinyTaskGUI.update_record_moves: the check box is toggled *)
UpdateRecordMoves ==
    /\ gui_pc = "idle"
    /\ record_mouse_moves' = ~record_mouse_moves
    /\ UNCHANGED <<events, playVars, script, now, recording, stop_event, rec_start_time,
                   mouse_listener, keyboard_listener, is_recording, rec_pc, rec_after,
                   gui_pc, h_pc, h_kind, h_time, cap_stop, last_mouse_pos, cap_start, loads>>

(* A capture of pointer moves: the GUI starts and stops captures and       *)
(* toggles the check box while the mouse listener reports moves.           *)
NextMoves ==
    \/ GuiStartRecording
    \/ GuiStopRecording
    \/ GuiStopRecordingDone
    \/ RecordingFinished
    \/ RecStart
    \/ RecClear
    \/ RecListen
    \/ RecWait
    \/ RecCleanup
    \/ RecAfter
    \/ NotifyMove
    \/ MoveFilter
    \/ MoveRecord
    \/ RecordStamp("mouse")
    \/ RecordAppend("mouse")
    \/ SetLastPos
    \/ UpdateRecordMoves

SpecMoves == InitCapture /\ [][NextMoves]_vars

(***************************************************************************)
(* Load: EnhancedTinyTaskGUI.load and EnhancedRecorder.load.               *)
(***************************************************************************)

(* An event of a saved log. *)
SavedEvent == [type |-> "mouse_click", data |-> "Button.left", time |-> LongDelay]

(* The files the user may choose: text that json.load cannot parse, a JSON *)
(* array of well-formed event records, and a JSON array whose record has   *)
(* neither 'data' nor 'time'.                                              *)
Files ==
    {[parses |-> FALSE, value |-> <<>>],
     [parses |-> TRUE, value |-> <<SavedEvent>>],
     [parses |-> TRUE, value |-> <<[type |-> "mouse_click"]>>]}

(* EnhancedTinyTaskGUI.load -> recorder.load: json.load either raises, and *)
(* the except clause of line 759 reports it, or returns the parsed value,  *)
(* which is assigned to recorder.events                                    *)
GuiLoad ==
    /\ gui_pc = "idle"
    /\ loads.count < MaxLoads
    /\ \E f \in Files :
        /\ loads' = [count |-> loads.count + 1, file |-> f, current |-> f.parses]
        /\ events' = IF f.parses THEN f.value ELSE events
    /\ UNCHANGED <<playVars, script, now, recording, stop_event, rec_start_time,
                   mouse_listener, keyboard_listener, is_recording, rec_pc, rec_after,
                   gui_pc, h_pc, h_kind, h_time, cap_stop, moveVars, cap_start>>

(* The user loads files at any time, also during a capture. *)
NextLoad ==
    \/ GuiLoad
    \/ GuiStartRecording
    \/ GuiStopRecording
    \/ GuiStopRecordingDone
    \/ RecordingFinished
    \/ RecThreadNext
    \/ \E l \in Listeners : Notify(l)
    \/ \E l \in Listeners : RecordStamp(l)
    \/ \E l \in Listeners : RecordAppend(l)
    \/ \E l \in Listeners : HotkeyStop(l)
    \/ \E l \in Listeners : HotkeyStopDone(l)

SpecLoad == Init /\ [][NextLoad]_vars

(***************************************************************************)
(* A capture on a backend that may refuse the subscription.                *)
(***************************************************************************)
NextSubscribe ==
    \/ GuiStartRecording
    \/ GuiStopRecording
    \/ GuiStopRecordingDone
    \/ RecordingFinished
    \/ RecThreadNext
    \/ RecListenFails
    \/ \E l \in Listeners : Notify(l)
    \/ \E l \in Listeners : RecordStamp(l)
    \/ \E l \in Listeners : RecordAppend(l)
    \/ \E l \in Listeners : HotkeyStop(l)
    \/ \E l \in Listeners : HotkeyStopDone(l)

SpecSubscribe == InitCapture /\ [][NextSubscribe]_vars

(***************************************************************************)
(* The whole GUI: the user records, stops, plays and pauses in any order,  *)
(* and presses the stop hot-key; no other input reaches the listeners.     *)
(***************************************************************************)

(* The program starts with no log, or with a log of one event loaded. *)
InitSession == Init /\ Len(events) <= 1

NextSession ==
    \/ GuiPlay
    \/ GuiPauseResume
    \/ GuiStop
    \/ PlaybackFinished
    \/ \E w \in Threads : WorkerStart(w)
    \/ PlaySteps
    \/ \E w \in Threads : WorkerAfter(w)
    \/ Tick
    \/ GuiStartRecording
    \/ GuiStopRecording
    \/ GuiStopRecordingDone
    \/ RecordingFinished
    \/ RecThreadNext
    \/ Deliver("keyboard", [type |-> "key_press", data |-> "Key.f9"])
    \/ \E l \in Listeners : RecordStamp(l)
    \/ \E l \in Listeners : RecordAppend(l)
    \/ \E l \in Listeners : HotkeyStop(l)
    \/ \E l \in Listeners : HotkeyStopDone(l)

SpecSession == InitSession /\ [][NextSession]_vars

(***************************************************************************)
(* Captures that only the stop hot-key ends: the user presses Record and   *)
(* never Stop.                                                             *)
(***************************************************************************)
NextHotkey ==
    \/ GuiStartRecording
    \/ RecordingFinished
    \/ RecThreadNext
    \/ \E l \in Listeners : Notify(l)
    \/ \E l \in Listeners : RecordStamp(l)
    \/ \E l \in Listeners : RecordAppend(l)
    \/ \E l \in Listeners : HotkeyStop(l)
    \/ \E l \in Listeners : HotkeyStopDone(l)
    \/ CaptureTick

SpecHotkey == InitCapture /\ [][NextHotkey]_vars

(***************************************************************************)
(* The standalone script: MacroCompiler.compile_to_script and the          *)
(* MacroPlayer of the script it writes, run by a Python process of its     *)
(* own.                                                                    *)
(***************************************************************************)

(* The events of the logs given to the compiler: a click as _on_click      *)
(* records it, with its 'pressed' flag; a key press; a key press whose     *)
(* dispatch raises.                                                        *)
ScriptEvent ==
    [type : {"mouse_click"}, data : {"Button.left"}, pressed : {TRUE}, time : EventTimes]
        \cup [type : {"key_press"}, data : {"'a'"}, time : EventTimes]
        \cup [type : {"key_press"}, data : {"Key.bogus"}, time : {0}]

ScriptLogs == UNION {[1..n -> ScriptEvent] : n \in 0..MaxLen}

(* json.dumps of an event: strings and numbers are written as literals     *)
(* that Python reads back as the same values, a boolean is written as the  *)
(* JSON name true or false.                                                *)
json_dumps(event) ==
    [f \in DOMAIN event |->
        IF f = "pressed" THEN [name |-> IF event[f] THEN "true" ELSE "false"]
        ELSE event[f]]

(* The EVENTS literal of the script: json.dumps(events) pasted into the    *)
(* source text, line 340.                                                  *)
EventsLiteral(log) == [k \in 1..Len(log) |-> json_dumps(log[k])]

(* Python evaluates the EVENTS literal: true and false are names that are  *)
(* not defined (Python's constants are True and False), so a literal that  *)
(* holds one raises NameError.                                             *)
LiteralRaises(source) ==
    \E k \in 1..Len(source) : "pressed" \in DOMAIN source[k]

(* The script's process is not between its start and its end. *)
ScriptIdle == script.pc \in {"none", "ready", "done", "crashed"}

(* A log is given to EnhancedPlayer(log) and to                            *)
(* MacroCompiler.compile_to_script(log, path), lines 324-396.              *)
CompileToScript ==
    /\ Active = {}
    /\ ScriptIdle
    /\ \E log \in ScriptLogs :
        /\ events' = log
        /\ script' = [NoScript EXCEPT !.source = EventsLiteral(log), !.pc = "ready"]
    /\ has_player' = TRUE
    /\ NewPlayer
    /\ NewSession
    /\ UNCHANGED <<is_playing, after_queue, threadVars, recording, stop_event,
                   rec_start_time, mouse_listener, keyboard_listener, is_recording,
                   rec_pc, rec_after, gui_pc, h_pc, h_kind, h_time, cap_stop,
                   moveVars, cap_start, loads>>

(* What the script's steps leave alone. *)
scriptFrame == <<events, playVars, recording, stop_event, rec_start_time,
                 mouse_listener, keyboard_listener, is_recording, rec_pc, rec_after,
                 gui_pc, h_pc, h_kind, h_time, cap_stop, moveVars, cap_start, loads>>

(* The script is started: the module is executed, EVENTS is evaluated, and *)
(* MacroPlayer().play() takes start_time (lines 361-362).  The clock of    *)
(* the model starts again.                                                 *)
ScriptStart ==
    /\ script.pc = "ready"
    /\ Active = {}
    /\ now' = 0
    /\ script' = IF LiteralRaises(script.source)
                 THEN [script EXCEPT !.pc = "crashed"]
                 ELSE [script EXCEPT !.pc = "loop", !.i = 0, !.start_time = 0]
    /\ UNCHANGED scriptFrame

(* MacroPlayer.play, lines 364-365: the next event and the sleep before it *)
ScriptDelay ==
    /\ script.pc = "loop"
    /\ script' =
        IF script.i < Len(script.source)
        THEN LET delay == Max(0, script.source[script.i + 1].time - (now - script.start_time))
             IN IF delay > 0
                THEN [script EXCEPT !.pc = "sleep", !.wake = SleepUntil(delay)]
                ELSE [script EXCEPT !.pc = "exec"]
        ELSE [script EXCEPT !.pc = "done", !.i = 0, !.start_time = 0, !.wake = 0]
    /\ UNCHANGED <<now, scriptFrame>>

(* time.sleep of line 365 returns *)
ScriptWake ==
    /\ script.pc = "sleep"
    /\ now >= script.wake
    /\ script' = [script EXCEPT !.pc = "exec"]
    /\ UNCHANGED <<now, scriptFrame>>

(* MacroPlayer.play, lines 367-382: the injection call.  There is no try   *)
(* around it: an exception ends play() and the process.                    *)
ScriptDispatch ==
    /\ script.pc = "exec"
    /\ LET event == script.source[script.i + 1]
           calls == Append(script.calls, <<script.i, event.time>>)
       IN script' =
            IF Raises(event)
            THEN [script EXCEPT !.pc = "crashed", !.calls = calls,
                                !.i = 0, !.start_time = 0, !.wake = 0]
            ELSE [script EXCEPT !.pc = "loop", !.calls = calls, !.i = script.i + 1]
    /\ UNCHANGED <<now, scriptFrame>>

(* The clock advances by one tick while the script sleeps. *)
ScriptTick ==
    /\ now < MaxTime
    /\ script.pc = "sleep"
    /\ now < script.wake
    /\ now' = now + 1
    /\ UNCHANGED <<script, scriptFrame>>

(* player.play(speed, loops, callback) is called while the script does not *)
(* run                                                                     *)
EnginePlayScriptIdle == ScriptIdle /\ EnginePlay

(* A log is compiled, played by the engine (paused and resumed at any      *)
(* time, never stopped) and replayed by the script, in either order.       *)
NextScript ==
    \/ CompileToScript
    \/ ScriptStart
    \/ ScriptDelay
    \/ ScriptWake
    \/ ScriptDispatch
    \/ ScriptTick
    \/ EnginePlayScriptIdle
    \/ EngineReturn
    \/ EnginePause
    \/ EngineResume
    \/ PlaySteps
    \/ Tick

SpecScript == InitCapture /\ [][NextScript]_vars

(***************************************************************************)
(* Playback: order of dispatch.                                            *)
(***************************************************************************)

(* play() has returned on some thread. *)
Returned == \E w \in Threads : pc[w] = "after"

(* The calls of _execute_event that have begun and not returned. *)
InFlight == {w \in Threads : pc[w] = "executing"}

(* C1: events are dispatched in log order within each loop, a loop starts  *)
(* at index 0 and only after the last event of the previous loop, and no   *)
(* two dispatches are in progress at once.                                 *)
C1_DispatchInOrder ==
    /\ Len(dispatched) > 0 => dispatched[1] = <<0, 0>>
    /\ \A k \in 1..(Len(dispatched) - 1) :
        LET a == dispatched[k]
            b == dispatched[k + 1]
        IN \/ b[1] = a[1] /\ b[2] = a[2] + 1
           \/ b[1] = a[1] + 1 /\ b[2] = 0 /\ a[2] = Len(events) - 1
    /\ \A k \in 1..Len(dispatched) : dispatched[k][2] < Len(events)
    /\ Cardinality(InFlight) <= 1

(* The first event of the second loop of a log of two events is in flight. *)
C1_Witness ==
    /\ Len(events) = 2
    /\ Len(dispatched) = 3
    /\ dispatched[3] = <<1, 0>>
    /\ InFlight # {}

(* When a play of a log of L > 0 events with loops = N >= 1 that was never *)
(* stopped returns, it has dispatched N * L events and invoked the         *)
(* callback L times for each currentLoop 1, 2, ..., N in that order, with  *)
(* totalLoops = N.                                                         *)
CountsWhenReturned ==
    (Returned /\ ~stop.called /\ Len(events) > 0 /\ loop_count >= 1) =>
        /\ Len(dispatched) = loop_count * Len(events)
        /\ Len(callbacks) = loop_count * Len(events)
        /\ \A k \in 1..Len(callbacks) :
            /\ callbacks[k][2] = ((k - 1) \div Len(events)) + 1
            /\ callbacks[k][3] = loop_count

(* C2: a play of a log of L > 0 events with loops = N >= 1 that is never   *)
(* stopped dispatches exactly N * L events, with currentLoop going through *)
(* 1, 2, ..., N (L callbacks each, totalLoops = N), and then returns: the  *)
(* counts hold whenever it has returned, and a playback thread that is not *)
(* paused again and again without end does return.                         *)
C2_PlaysAllLoops ==
    /\ []CountsWhenReturned
    /\ ([]<>paused) \/ [](Active # {} => <>(Active = {}))

(* A never stopped play of two loops of a log of two events has returned. *)
C2_Witness ==
    /\ Returned
    /\ ~stop.called
    /\ Len(events) = 2
    /\ loop_count = 2
    /\ Len(dispatched) = 4

(***************************************************************************)
(* Playback: stop and pause.                                               *)
(***************************************************************************)

(* C3: once Stop() has returned no dispatch begins; only a dispatch that   *)
(* was in progress when Stop() was called may still complete.              *)
C3_NoDispatchAfterStop ==
    [][(stop.called /\ stop'.called) => dispatched' = dispatched]_vars

(* C4: when Stop() is called while the playback thread is in the sleep     *)
(* that precedes an event, play() has returned once more than one polling  *)
(* interval has passed since the call.                                     *)
C4_StopInterruptsSleep ==
    (stop.called /\ stop.in_sleep /\ now > stop.time + PollTicks) =>
        \A w \in Threads : pc[w] \in {"after", "idle"}

(* C6: while the player is paused no dispatch begins and no progress       *)
(* callback is invoked.                                                    *)
C6_NoProgressWhilePaused ==
    [][(paused /\ paused') => (dispatched' = dispatched /\ callbacks' = callbacks)]_vars

(* C7: when Stop() is called while the player is paused and Resume() is    *)
(* not called afterwards, the playback thread eventually returns.          *)
C7_StopWhilePausedTerminates ==
    [](((stop.called /\ stop.paused /\ ~stop.resumed) =>
            <>(Active = {} \/ ~stop.called \/ stop.resumed)))

(* C8: whenever the player is idle (playing = false) it is not paused.     *)
C8_IdleNotPaused == ~playing => ~paused

(* On an empty log nothing is dispatched, no callback is invoked, and when *)
(* play() has returned playing = false.                                    *)
EmptyLogNoDispatch ==
    Len(events) = 0 =>
        /\ dispatched = <<>>
        /\ callbacks = <<>>
        /\ Returned => ~playing

(* C9: on an empty log play() dispatches nothing, invokes no callback and  *)
(* returns with playing = false, whatever speed and loops are.             *)
C9_EmptyLog ==
    /\ []EmptyLogNoDispatch
    /\ []((Len(events) = 0 /\ Active # {}) => <>Returned)

(* play(speed > 0, loops = 2) on an empty log has returned. *)
C9_Witness ==
    /\ Len(events) = 0
    /\ Returned
    /\ speed_multiplier > 0
    /\ loop_count = 2
    /\ current_loop = 2

(* C10: with speed <= 0 or loops < 1 a play of a non-empty log dispatches  *)
(* no event and invokes no callback.                                       *)
C10_InvalidConfigRejected ==
    (Len(events) > 0 /\ (speed_multiplier <= 0 \/ loop_count < 1)) =>
        (dispatched = <<>> /\ callbacks = <<>>)

(***************************************************************************)
(* Playback: dispatch failures.                                            *)
(***************************************************************************)

(* The dispatches of a whole play of loops passes over a log of len events. *)
AllDispatches(loops, len) ==
    [k \in 1..(loops * len) |-> <<(k - 1) \div len, (k - 1) % len>>]

(* The callbacks of a whole play: <<i + 1, currentLoop, totalLoops, len>>. *)
AllCallbacks(loops, len) ==
    [k \in 1..(loops * len) |-> <<((k - 1) % len) + 1, ((k - 1) \div len) + 1, loops, len>>]

(* C11: a dispatch that raises is contained at its event.  Whatever events *)
(* of the log fail, play() catches no exception (it only does for speed 0, *)
(* a division by zero), and a play with loops >= 1 that was never stopped  *)
(* has, when it returns, called _execute_event on every event of every     *)
(* loop in log order and invoked the callback once for each position, the  *)
(* failing ones included.                                                  *)
C11_DispatchFailureContained ==
    /\ caught => speed_multiplier = 0
    /\ (Returned /\ ~stop.called /\ Len(events) > 0 /\ loop_count >= 1
            /\ speed_multiplier # 0) =>
        /\ dispatched = AllDispatches(loop_count, Len(events))
        /\ callbacks = AllCallbacks(loop_count, Len(events))

(* Two loops over a log whose first event fails and whose second does not  *)
(* have returned, unstopped, after four dispatches.                        *)
C11_Witness ==
    /\ Returned
    /\ ~stop.called
    /\ Len(events) = 2
    /\ Raises(events[1])
    /\ ~Raises(events[2])
    /\ loop_count = 2
    /\ speed_multiplier = 1
    /\ Len(dispatched) = 4
    /\ Len(callbacks) = 4

(***************************************************************************)
(* Capture: timestamps.                                                    *)
(***************************************************************************)

(* C12: during a capture fed by the mouse listener thread and the keyboard *)
(* listener thread, the 'time' values of the log are >= 0 and              *)
(* non-decreasing from one entry to the next.                              *)
C12_TimestampsNonDecreasing ==
    /\ \A k \in 1..Len(events) : events[k].time >= 0
    /\ \A k \in 1..(Len(events) - 1) : events[k].time <= events[k + 1].time

(***************************************************************************)
(* Capture: the movement filter.                                           *)
(***************************************************************************)

(* The indices of the pointer moves of a log. *)
MoveIndices(log) == {k \in 1..Len(log) : log[k].type = "mouse_move"}

(* The position of the last pointer move of a log that has one. *)
LastMove(log) ==
    log[CHOOSE k \in MoveIndices(log) : \A j \in MoveIndices(log) : j <= k].data

(* max(|x - lx|, |y - ly|) *)
MaxDelta(p, q) == Max(Abs(p[1] - q[1]), Abs(p[2] - q[2]))

(* _on_move decides about the move it was called with. *)
FilterStep == h_pc["mouse"] = "filter" /\ h_pc'["mouse"] # "filter"

(* C13: while the capture is active and the log holds a move, a move       *)
(* notification at (x, y) passes the filter iff max(|x - lx|, |y - ly|) >= *)
(* mouse_move_threshold, (lx, ly) being the last move recorded in the log, *)
(* and a move that has passed is stamped and appended as long as the       *)
(* capture is active; with move recording disabled the notification is     *)
(* discarded and neither the log nor last_mouse_pos changes.  (The move    *)
(* that finds no move in the log is the subject of C14.)                   *)
C13_MoveFilter ==
    [][/\ (FilterStep /\ recording /\ record_mouse_moves /\ MoveIndices(events) # {}) =>
            (h_pc'["mouse"] = "record" <=>
                MaxDelta(h_kind["mouse"].data, LastMove(events)) >= MoveThreshold)
       /\ (h_pc["mouse"] = "record" /\ h_pc'["mouse"] # "record" /\ recording) =>
            h_pc'["mouse"] = "stamp"
       /\ (h_pc["mouse"] = "stamp" /\ h_pc'["mouse"] # "stamp") =>
            h_pc'["mouse"] = "append"
       /\ (h_pc["mouse"] = "append" /\ h_pc'["mouse"] # "append") =>
            /\ Len(events') = Len(events) + 1
            /\ events'[Len(events')].type = "mouse_move"
            /\ events'[Len(events')].data = h_kind["mouse"].data
       /\ (FilterStep /\ ~record_mouse_moves) =>
            /\ h_pc'["mouse"] = "idle"
            /\ events' = events
            /\ last_mouse_pos' = last_mouse_pos]_vars

(* During a capture whose log ends with a move at (6, 6), a move to (0, 6) *)
(* has passed the filter; last_mouse_pos is the move of the log.           *)
C13_Witness ==
    /\ recording
    /\ record_mouse_moves
    /\ MoveIndices(events) # {}
    /\ LastMove(events) = <<6, 6>>
    /\ last_mouse_pos = <<6, 6>>
    /\ h_pc["mouse"] = "record"
    /\ h_kind["mouse"].data = <<0, 6>>

(* C14: with move recording enabled, the first move notification of a      *)
(* capture session passes the filter, whatever its coordinates.            *)
C14_FirstMoveRetained ==
    [][(FilterStep /\ recording /\ record_mouse_moves /\ mouse_listener = "running"
            /\ ~cap_start.moved) => h_pc'["mouse"] = "record"]_vars

(***************************************************************************)
(* Capture: stop.                                                          *)
(***************************************************************************)

(* The fields of the capture engine: flags, log, listeners. *)
recorderState == <<recording, stop_event, rec_start_time, events,
                   mouse_listener, keyboard_listener, last_mouse_pos>>

(* The fields of the playback engine. *)
playerState == <<playing, paused, speed_multiplier, loop_count, current_loop, events>>

(* A statement of recorder.stop(), called by the GUI or by the hot-key. *)
RecorderStopStep ==
    \/ GuiStopRecording
    \/ GuiStopRecordingDone
    \/ \E l \in Listeners : HotkeyStop(l)
    \/ \E l \in Listeners : HotkeyStopDone(l)

(* C16: Stop() is idempotent on both engines.  In a state as a Stop() of   *)
(* the recorder leaves it (stop_event set, recording false) no statement   *)
(* of a further Stop() changes a field of the recorder, and in a state as  *)
(* a Stop() of the player leaves it (playing false) a further Stop()       *)
(* changes no field of the player.  A Stop() of the recorder that has      *)
(* wholly preceded start() has no effect on the capture: once start() has  *)
(* executed lines 148-152 with no statement of stop() since, recording is  *)
(* true and stop_event is clear.                                           *)
C16_StopIdempotent ==
    /\ (stop_event /\ ~recording) => ~ENABLED <<RecorderStopStep>>_recorderState
    /\ ~playing => ~ENABLED <<GuiStop>>_playerState
    /\ (rec_pc \in {"listen", "wait"} /\ ~cap_start.stopped) => (recording /\ ~stop_event)

(* After a Stop() that returned before start() ran, the capture is under   *)
(* way and a second Stop(), called after a first one that took effect, has *)
(* executed line 178.                                                      *)
C16_Witness ==
    /\ cap_stop.returned
    /\ cap_stop.len = 0
    /\ Len(events) = 1
    /\ stop_event
    /\ ~recording
    /\ gui_pc = "stop"
    /\ rec_pc = "wait"
    /\ stop.called
    /\ ~playing

(* C17: when subscribing to the backend fails during start(), start()     *)
(* raises to its caller and, once it has returned or raised, no listener   *)
(* is running.                                                             *)
C17_SubscribeFailureSurfaced ==
    (cap_start.failed /\ cap_start.result # "none") =>
        /\ cap_start.result = "raised"
        /\ mouse_listener # "running"
        /\ keyboard_listener # "running"

(***************************************************************************)
(* Load.                                                                   *)
(***************************************************************************)

(* A value json.load returned is an array of well-formed event records. *)
WellFormedLog(value) ==
    \A k \in 1..Len(value) : DOMAIN value[k] = {"type", "data", "time"}

(* The file cannot be parsed, or is not an array of event records. *)
Malformed(file) == ~file.parses \/ ~WellFormedLog(file.value)

(* C18: a Load of malformed input leaves the in-memory log as it was. *)
C18_MalformedLoadRejected ==
    [][(loads'.count > loads.count /\ Malformed(loads'.file)) => events' = events]_vars

(* C20: once a Load of a well-formed file has completed, at whatever       *)
(* moment, the in-memory log is the loaded sequence until the next start() *)
(* or Load: no capture notification modifies it.                           *)
C20_LoadedLogNotModified ==
    (loads.current /\ ~Malformed(loads.file)) => events = loads.file.value

(***************************************************************************)
(* The GUI: one worker at a time.                                          *)
(***************************************************************************)

(* The engine workers that are running: playback threads and the record    *)
(* thread.                                                                 *)
ActiveWorkers == Cardinality(Active) + (IF rec_pc # "idle" THEN 1 ELSE 0)

(* C19: at most one engine worker is active at a time, and the GUI accepts *)
(* a Record or a Play command only when none is: is_recording is true as   *)
(* long as the record thread runs, is_playing as long as a playback thread *)
(* runs.                                                                   *)
C19_OneWorkerAtATime ==
    /\ ActiveWorkers <= 1
    /\ rec_pc # "idle" => is_recording
    /\ Active # {} => is_playing

(* A playback thread runs after a capture has been made and finished, and  *)
(* the user has pressed Record in vain: the log being played was recorded. *)
C19_Witness ==
    /\ Active # {}
    /\ keyboard_listener = "stopped"
    /\ rec_pc = "idle"
    /\ \E w \in Threads : pc[w] = "executing"
    /\ events[1].type = "key_press"

(* C15: once a Stop() of the recorder has returned during a capture the    *)
(* GUI started, the record thread is eventually unblocked: start() returns *)
(* and the GUI leaves the recording state.                                 *)
C15_StopUnblocksCapture == [](cap_stop.returned => <>(~is_recording))

(* C5: once a Stop() of the recorder has returned the log grows by at most *)
(* one event, the one whose append was in flight.                          *)
C5_NoAppendAfterStop ==
    cap_stop.returned => Len(events) <= cap_stop.len + 1

(***************************************************************************)
(* Playback: pauses and the delay before an event.                         *)
(***************************************************************************)

(* The offset from the start of a loop at which an unpaused _play_sequence *)
(* dispatches the event at position i of the log: the largest target time  *)
(* up to i, as the loop never goes back in time; 0 before the first event. *)
UnpausedOffset(i) ==
    LET targets == {TargetTime(events[j].time, speed_multiplier) : j \in 1..i}
    IN IF \E t \in targets : t > 0
       THEN CHOOSE t \in targets : \A u \in targets : u <= t
       ELSE 0

(* The delay between the dispatch of the event at position i - 1 (or the   *)
(* start of the loop) and the dispatch of the event at position i, in an   *)
(* unpaused run.                                                           *)
UnpausedDelay(i) == UnpausedOffset(i) - UnpausedOffset(i - 1)

(* _play_sequence leaves lines 258-267 for the event at position i. *)
DelayStep(w) == pc[w] = "check" /\ pc'[w] \in {"sleep", "exec"}

(* C21: a pause does not advance the elapsed-time accounting of the loop.  *)
(* Whenever _play_sequence computes the delay before an event, whether or  *)
(* not the thread has been held in the pause loop since the previous       *)
(* dispatch, it sleeps for the delay the event has to the previous one in  *)
(* an unpaused run, and dispatches at once only when that delay is 0.      *)
(* (Stated for the instants before the clock of the model stops.)          *)
C21_PauseKeepsDelays ==
    [][\A w \in Threads :
        (DelayStep(w) /\ now < MaxTime) =>
            IF UnpausedDelay(idx[w] + 1) > 0
            THEN pc'[w] = "sleep" /\ wake'[w] = SleepUntil(UnpausedDelay(idx[w] + 1))
            ELSE pc'[w] = "exec"]_vars

(***************************************************************************)
(* The standalone script against the engine.                               *)
(***************************************************************************)

(* The engine has played its log through once with speed 1 and 1 loop. *)
EnginePlayedOnce ==
    /\ pc[1] = "idle"
    /\ speed_multiplier = 1
    /\ loop_count = 1
    /\ current_loop = 1

(* The injection calls of the latest play of the engine, each with the     *)
(* target time of its event: event['time'] / speed_multiplier.             *)
EngineCalls ==
    [k \in 1..Len(dispatched) |->
        <<dispatched[k][2], TargetTime(events[dispatched[k][2] + 1].time, speed_multiplier)>>]

(* C22: the script generated for a log performs the playback of            *)
(* play(speed=1, loops=1) on that log: once the script's process has ended *)
(* and the engine has played the log, the script has issued the injection  *)
(* calls the engine has issued, in the same order and with the same target *)
(* times, also when the dispatch of an event fails.                        *)
C22_ScriptMatchesEngine ==
    (script.pc \in {"done", "crashed"} /\ EnginePlayedOnce) => script.calls = EngineCalls

(***************************************************************************)
(* Playback: the progress callback.                                        *)
(***************************************************************************)

(* The calls of _execute_event whose callback has not been invoked yet. *)
AwaitingCallback == {w \in Threads : pc[w] \in {"executing", "cb"}}

(* The fraction a / b is less than the fraction c / d (b, d > 0). *)
FractionLess(a, b, c, d) == a * d < c * b

(* C23: the progress callback is invoked once for each dispatched event,   *)
(* after its dispatch and before the next dispatch, with the arguments     *)
(* ((i + 1) / len(events), currentLoop + 1, totalLoops) of that event; so  *)
(* 0 < fraction <= 1 and 1 <= currentLoop <= totalLoops in every           *)
(* invocation, the fraction grows strictly within a loop, and the last     *)
(* invocation of a loop that was completed has fraction 1.                 *)
C23_ProgressCallback ==
    /\ Len(dispatched) = Len(callbacks) + Cardinality(AwaitingCallback)
    /\ Cardinality(AwaitingCallback) <= 1
    /\ \A k \in 1..Len(callbacks) :
        /\ callbacks[k] = <<dispatched[k][2] + 1, dispatched[k][1] + 1, loop_count, Len(events)>>
        /\ 0 < callbacks[k][1]
        /\ callbacks[k][1] <= callbacks[k][4]
        /\ 1 <= callbacks[k][2]
        /\ callbacks[k][2] <= callbacks[k][3]
    /\ \A k \in 1..(Len(callbacks) - 1) :
        IF callbacks[k + 1][2] = callbacks[k][2]
        THEN FractionLess(callbacks[k][1], callbacks[k][4],
                          callbacks[k + 1][1], callbacks[k + 1][4])
        ELSE callbacks[k][1] = callbacks[k][4]
    /\ (Returned /\ ~stop.called /\ Len(callbacks) > 0) =>
        callbacks[Len(callbacks)][1] = callbacks[Len(callbacks)][4]

(* The callback of the last event of the second loop of a log of two       *)
(* events has been invoked with fraction 2 / 2, after one with 1 / 2.      *)
C23_Witness ==
    /\ Len(callbacks) = 4
    /\ callbacks[3] = <<1, 2, 2, 2>>
    /\ callbacks[4] = <<2, 2, 2, 2>>
    /\ Len(dispatched) = 4

(***************************************************************************)
(* Capture: the stop hot-key.                                              *)
(***************************************************************************)

(* The positions of the log that hold a press of the stop hot-key. *)
HotkeyIndices(log) == {k \in 1..Len(log) : IsHotkey(log[k])}

(* C24: a press of the stop hot-key delivered during an active capture is  *)
(* appended and stops the capture from within _on_press, so that it is the *)
(* last event of the resulting log: once start() has returned, no event    *)
(* follows a hot-key press in the log.  (That start() does return after a  *)
(* Stop() is the subject of C15.)                                          *)
C24_HotkeyIsLastEvent ==
    cap_start.result = "returned" =>
        \A k \in HotkeyIndices(events) : k = Len(events)

(***************************************************************************)
(* Capture: the recording flag.                                            *)
(***************************************************************************)

(* The record thread is executing EnhancedRecorder.start. *)
InsideStart == rec_pc \in {"clear", "listen", "wait", "cleanup"}

(* C25: recording is true only while a thread is inside start(): before    *)
(* the first start() and after start() has returned by any path (a Stop(), *)
(* the stop hot-key, a backend error caught inside start()), recording is  *)
(* false.                                                                  *)
C25_RecordingOnlyInsideStart == recording => InsideStart

=============================================================================
